---- MODULE Spec2Model ----
(***************************************************************************)
(* CodePilot AI orchestrator: the task store (tasks/<task_id>.json), the   *)
(* single shared git workspace, and the three request handlers of          *)
(* src/main.py that drive them:                                            *)
(*   create_task_from_message, apply_change_for_task, run_tests_for_task.  *)
(*                                                                         *)
(* The handlers are plain `def` endpoints; FastAPI runs them on a thread   *)
(* pool, so two requests may overlap.  A request is modelled as a small    *)
(* program: each step below is a stretch of the handler between two        *)
(* points at which another request may run.                                *)
(***************************************************************************)
EXTENDS Integers, Sequences, FiniteSets, TLC

VARIABLES
    store,      \* task_id -> content of tasks/<task_id>.json
    ws,         \* the local clone at TARGET_REPO_LOCAL_PATH
    req,        \* request slot (worker thread) -> the request it serves
    started,    \* number of apply / run-tests requests accepted so far
    call        \* the last call of a git_service function made on its own

vars == <<store, ws, req, started, call>>

---------------------------------------------------------------------------
(* Bounds of the model *)

MaxRequests == 3        \* apply / run-tests requests per behaviour

---------------------------------------------------------------------------
(* Values *)

None == "None"
Slots == {1, 2}
TaskIds == {<<"0a1b2c", "3d">>, <<"7e8f90", "1a">>}

\* git_service.py:9  TARGET_REPO_DEFAULT_BRANCH
DefaultBranch == "master"

\* main.py:423-424  compact_id[:6] of the id with dashes removed
BranchName(task_id) == "cpai-" \o task_id[1]

AllBranches == {DefaultBranch} \cup {BranchName(t) : t \in TaskIds}

\* A repository path is <<directory, file name>>.
FileName(p) == p[2]

\* Files of the baseline branch of the target repository.
BaselineFiles == {<<"a", "Foo.txt">>, <<"a", "Bar.txt">>, <<"b", "Bar.txt">>}

DeclaredPaths ==
    {<<"a", "Foo.txt">>, <<"a", "Bar.txt">>, <<"x", "Foo.txt">>,
     <<"x", "Bar.txt">>, <<"x", "New.txt">>}

Paths == BaselineFiles \cup DeclaredPaths

\* Store entries: a missing file, a file holding truncated JSON, a task.
NoTask == [file |-> "absent"]
Corrupt == [file |-> "corrupt"]
IsTask(rec) == rec.file = "json"

Response(code, detail) == [code |-> code, detail |-> detail]
NoResponse == Response(0, "")

---------------------------------------------------------------------------
(* The workspace: src/services/git_service.py                              *)
(*                                                                         *)
(*   cloned   TARGET_REPO_LOCAL_PATH exists                                *)
(*   head     the branch checked out                                       *)
(*   local    local branches                                               *)
(*   pushed   branches pushed to origin                                    *)
(*   commits  branch -> paths changed by the commits made on it            *)
(*   dirty    paths written in the working tree and not committed          *)
(*                                                                         *)
(* run_git_command raises RuntimeError when git exits non-zero; whether a  *)
(* command fails is an input of the step (an outcome record).  An          *)
(* operation returns [ok, ws, cmds]: whether it returned normally, the     *)
(* workspace it leaves, and the git commands it issued, in order.          *)
(***************************************************************************)

NoWorkspace ==
    [cloned |-> FALSE, head |-> None, local |-> {}, pushed |-> {},
     commits |-> [b \in AllBranches |-> {}], dirty |-> {}]

\* Files present in the working tree.
Tree(w) == IF w.cloned THEN BaselineFiles \cup w.commits[w.head] \cup w.dirty ELSE {}

GitResult(ok, w, cmds) == [ok |-> ok, ws |-> w, cmds |-> cmds]

\* Outcomes of the git commands of one ensure_repo_cloned call:
\* first = clone (no clone yet) or fetch, checkout, retry (of checkout), pull.
\* A command that is not reached has no outcome of its own (it is listed as
\* succeeding).
EnsureOutcomes ==
    {o \in [first : BOOLEAN, checkout : BOOLEAN, retry : BOOLEAN, pull : BOOLEAN] :
        /\ ~o.first => o.checkout /\ o.retry /\ o.pull
        /\ o.checkout => o.retry
        /\ ~o.retry => o.pull}

\* git_service.py:41-56  first call: clone, checkout, pull
FirstClone(w, o) ==
    LET w1 == [w EXCEPT !.cloned = TRUE, !.head = DefaultBranch,
                        !.local = {DefaultBranch}, !.dirty = {}]
    IN  IF ~o.first THEN GitResult(FALSE, w, <<"clone">>)
        ELSE IF ~o.checkout THEN GitResult(FALSE, w1, <<"clone", "checkout">>)
        ELSE GitResult(o.pull, w1, <<"clone", "checkout", "pull">>)

\* Resync, cleaning the working tree before the first checkout.
ResyncCleansFirst(w, o) ==
    LET cleaned == [w EXCEPT !.dirty = {}]
        cleanedOnBase == [w EXCEPT !.dirty = {}, !.head = DefaultBranch]
    IN  IF ~o.first THEN GitResult(FALSE, w, <<"fetch">>)
        ELSE IF ~o.checkout
             THEN GitResult(FALSE, cleaned, <<"fetch", "reset", "clean", "checkout">>)
        ELSE GitResult(o.pull, cleanedOnBase,
                       <<"fetch", "reset", "clean", "checkout", "pull">>)

\* git_service.py:57-98  later calls: fetch, checkout, on failure reset --hard,
\* clean -fd and one retry, then pull
Resync(w, o) ==
    LET onBase == [w EXCEPT !.head = DefaultBranch]
        cleaned == [w EXCEPT !.dirty = {}]
        cleanedOnBase == [w EXCEPT !.dirty = {}, !.head = DefaultBranch]
    IN  IF ~o.first THEN GitResult(FALSE, w, <<"fetch">>)
        ELSE IF o.checkout
             THEN GitResult(o.pull, onBase, <<"fetch", "checkout", "pull">>)
        ELSE IF ~o.retry
             THEN GitResult(FALSE, cleaned,
                            <<"fetch", "checkout", "reset", "clean", "checkout">>)
        ELSE GitResult(o.pull, cleanedOnBase,
                       <<"fetch", "checkout", "reset", "clean", "checkout", "pull">>)

\* git_service.py:32-98
ensure_repo_cloned(w, o) == IF ~w.cloned THEN FirstClone(w, o) ELSE Resync(w, o)

\* Outcomes of one create_feature_branch call.
BranchOutcomes ==
    {o \in [ensure : EnsureOutcomes, checkout : BOOLEAN, pull : BOOLEAN, create : BOOLEAN] :
        /\ ~(o.ensure.first /\ o.ensure.retry /\ o.ensure.pull)
              => o.checkout /\ o.pull /\ o.create
        /\ ~o.checkout => o.pull /\ o.create
        /\ ~o.pull => o.create}

\* git_service.py:101-111  `git checkout -b` fails when the branch exists
create_feature_branch(w, branch_name, o) ==
    LET e == ensure_repo_cloned(w, o.ensure)
        w1 == [e.ws EXCEPT !.head = DefaultBranch]
        w2 == [w1 EXCEPT !.head = branch_name,
                         !.local = @ \cup {branch_name},
                         !.commits[branch_name] = w1.commits[DefaultBranch]]
    IN  IF ~e.ok THEN e
        ELSE IF ~o.checkout THEN GitResult(FALSE, e.ws, e.cmds \o <<"checkout">>)
        ELSE IF ~o.pull THEN GitResult(FALSE, w1, e.cmds \o <<"checkout", "pull">>)
        ELSE IF branch_name \in w1.local \/ ~o.create
             THEN GitResult(FALSE, w1, e.cmds \o <<"checkout", "pull", "checkout -b">>)
        ELSE GitResult(TRUE, w2, e.cmds \o <<"checkout", "pull", "checkout -b">>)

\* Outcomes of one commit_and_push call (commit: a failure other than an
\* empty index, such as a rejected hook).
PublishOutcomes ==
    {o \in [checkout : BOOLEAN, commit : BOOLEAN, push : BOOLEAN] :
        ~o.checkout => o.commit /\ o.push}

\* git_service.py:129-137  the RuntimeError of run_git_command is
\* "Git command failed: commit -m <message>"; it is swallowed when that text
\* contains "nothing to commit", which only the commit message can supply.
CommitErrorSwallowed(commit_message) == commit_message = "CodePilot AI: nothing to commit"

\* git_service.py:114-140
commit_and_push(w, branch_name, commit_message, o) ==
    LET w1 == [w EXCEPT !.head = branch_name]
        committed == [w1 EXCEPT !.commits[branch_name] = @ \cup w1.dirty, !.dirty = {}]
        commitFails == w1.dirty = {} \/ ~o.commit
        w2 == IF commitFails THEN w1 ELSE committed
        w3 == [w2 EXCEPT !.pushed = @ \cup {branch_name}]
    IN  IF ~w.cloned THEN GitResult(FALSE, w, <<>>)
        ELSE IF branch_name \notin w.local \/ ~o.checkout
             THEN GitResult(FALSE, w, <<"checkout">>)
        ELSE IF commitFails /\ ~CommitErrorSwallowed(commit_message)
             THEN GitResult(FALSE, w1, <<"checkout", "add", "commit">>)
        ELSE IF ~o.push
             THEN GitResult(FALSE, w2, <<"checkout", "add", "commit", "push">>)
        ELSE GitResult(TRUE, w3, <<"checkout", "add", "commit", "push">>)

---------------------------------------------------------------------------
(* The task store: src/storage/task_storage.py                             *)
(***************************************************************************)

\* models/task_spec.py:69-76  create_default seeds the timeline with one
\* TaskEvent whose `at` is a datetime object; TaskSpec.dict() keeps it one.
SeededTimeline ==
    <<[label |-> "Task created", at |-> "datetime",
       meta |-> [source |-> "CodePilot AI User Portal"]]>>

\* task_storage.py:27-28  json.dump raises TypeError on a datetime, after the
\* keys before it have been written to the file opened with "w".
JsonSerializable(task) ==
    \A i \in DOMAIN task.timeline : task.timeline[i].at # "datetime"

\* task_storage.py:13-28  the whole record is written over the file
save_task(st, task) ==
    [st EXCEPT ![task.task_id] = IF JsonSerializable(task) THEN task ELSE Corrupt]

\* task_storage.py:31-39  None for a missing file; json.load raises on a
\* truncated one
load_task(st, task_id) == st[task_id]

\* What generate_task_spec returns for a message: the fields the language
\* model supplied over the defaults of TaskSpec.create_default
\* (spec_agent.py:91-102).
SpecOutputs ==
    [description : {"", "Fix the bug", "nothing to commit"},
     affected_files : {<<>>, <<<<"a", "Foo.txt">>>>, <<<<"a", "Bar.txt">>>>,
                       <<<<"x", "Foo.txt">>>>, <<<<"x", "Bar.txt">>>>,
                       <<<<"x", "New.txt">>>>,
                       << <<"x", "Foo.txt">>, <<"x", "New.txt">> >>},
     timeline : {<<>>, SeededTimeline}]

\* main.py:108-121 with spec_agent.py:91-102 and task_spec.py:38-47
NewTask(task_id, out) ==
    [file |-> "json", task_id |-> task_id, description |-> out.description,
     affected_files |-> out.affected_files, status |-> "open",
     timeline |-> out.timeline, branch_name |-> None, applied_branch |-> None,
     run_history |-> <<>>, last_test_status |-> None]

---------------------------------------------------------------------------
(* Requests                                                                *)
(*                                                                         *)
(*   kind       "apply" or "run_tests"                                     *)
(*   at         the arrival number of the request; it stands for the       *)
(*              timestamps the handler takes (datetime.now)                *)
(*   task       the handler's local `task` dict                            *)
(*   idx        position of the loop over affected_files                   *)
(*   modified   actual_modified_paths                                      *)
(*   touched    a git command was issued or a file written                 *)
(*   published  commit_and_push returned                                   *)
(*   exit       exit code of the test command, -1 while there is none      *)
(*   resp       the HTTP response, NoResponse while the handler runs       *)
(*   candidates the paths listed in the detail of a "Multiple matches" 400 *)
(*   written    the content of each write_text, in the order of `modified` *)
(***************************************************************************)

IdleRequest ==
    [kind |-> "none", at |-> 0, task_id |-> <<>>, pc |-> "idle", task |-> NoTask,
     idx |-> 0, modified |-> <<>>, touched |-> FALSE, published |-> FALSE,
     exit |-> -1, resp |-> NoResponse, candidates |-> {}, written |-> <<>>]

Arrived(kind, task_id, at) ==
    [IdleRequest EXCEPT !.kind = kind, !.task_id = task_id, !.at = at]

Free(r) == req[r].pc = "idle"

Respond(q, code, detail) == [q EXCEPT !.pc = "done", !.resp = Response(code, detail)]

\* No git_service function has been called on its own.
NoCall == [op |-> "none"]

Init ==
    /\ store = [t \in TaskIds |-> NoTask]
    /\ ws = NoWorkspace
    /\ req = [r \in Slots |-> IdleRequest]
    /\ started = 0
    /\ call = NoCall

\* main.py:103-121  POST /tasks/from-message
create_task_from_message(task_id, out) ==
    /\ store[task_id] = NoTask
    /\ store' = save_task(store, NewTask(task_id, out))
    /\ UNCHANGED <<ws, req, started, call>>

---------------------------------------------------------------------------
(* POST /tasks/{task_id}/apply-change: main.py:385-514                     *)
(***************************************************************************)

IsClosedUpperCase(status) == status = "CLOSED"

\* main.py:403-404
IsClosed(status) == status = "closed"

\* resolve_repo_file, searching by file name before trying the path as given.
ResolveByNameFirst(rel_path, tree) ==
    LET matches == {p \in tree : FileName(p) = FileName(rel_path)}
    IN  IF Cardinality(matches) = 1
        THEN [ok |-> TRUE, path |-> CHOOSE p \in matches : TRUE, candidates |-> {}]
        ELSE IF Cardinality(matches) > 1
        THEN [ok |-> FALSE, path |-> rel_path, candidates |-> matches]
        ELSE [ok |-> TRUE, path |-> rel_path, candidates |-> {}]

\* resolve_repo_file, settling for one of several files of that name.
ResolvePicksOne(rel_path, tree) ==
    LET matches == {p \in tree : FileName(p) = FileName(rel_path)}
    IN  IF rel_path \in tree
        THEN [ok |-> TRUE, path |-> rel_path, candidates |-> {}]
        ELSE IF matches # {}
        THEN [ok |-> TRUE, path |-> CHOOSE p \in matches : TRUE, candidates |-> {}]
        ELSE [ok |-> TRUE, path |-> rel_path, candidates |-> {}]

\* main.py:342-382  [ok, path, candidates]; not ok is the 400 raised for
\* several files of that name
resolve_repo_file(rel_path, tree) ==
    LET matches == {p \in tree : FileName(p) = FileName(rel_path)}
    IN  IF rel_path \in tree
        THEN [ok |-> TRUE, path |-> rel_path, candidates |-> {}]
        ELSE IF Cardinality(matches) = 1
        THEN [ok |-> TRUE, path |-> CHOOSE p \in matches : TRUE, candidates |-> {}]
        ELSE IF Cardinality(matches) > 1
        THEN [ok |-> FALSE, path |-> rel_path, candidates |-> matches]
        ELSE [ok |-> TRUE, path |-> rel_path, candidates |-> {}]

\* What generate_updated_file_content does for one file: it returns content
\* that differs from the original, returns the original content, returns
\* the empty string (coding_agent.py:61-62: `content or ""`, no test of the
\* result), or raises (the API call failed).  No file of the baseline is
\* empty.
GenOutcomes == {"changed", "same", "empty", "raise"}

\* The string handed to write_text for a generator outcome.
Content(g) == IF g = "empty" THEN "" ELSE "code"

\* main.py:460  write_text: the path is in the working tree afterwards, and
\* differs from the commit unless an existing file got its own content back
WriteFile(w, path, g) ==
    IF g = "same" /\ path \in Tree(w) THEN w ELSE [w EXCEPT !.dirty = @ \cup {path}]

\* main.py:465
CommitMessage(description) == "CodePilot AI: " \o description

\* Applied, recording a branch named after the time of the request.
AppliedStampsBranch(task, branch_name, modified, at) ==
    [task EXCEPT !.status = "closed",
                 !.applied_branch = "cpai-" \o ToString(at),
                 !.run_history = Append(@, [applied_at |-> at, branch |-> branch_name,
                                            files_modified |-> modified])]

\* main.py:468-482  the update of the local task dict after the push
Applied(task, branch_name, modified, at) ==
    [task EXCEPT !.status = "closed",
                 !.applied_branch = branch_name,
                 !.run_history = Append(@, [applied_at |-> at, branch |-> branch_name,
                                            files_modified |-> modified])]

\* ApplyLoad without the tests of the description and of affected_files.
ApplyLoadUnvalidated(r, task_id) ==
    LET task == load_task(store, task_id)
        q == [Arrived("apply", task_id, started + 1) EXCEPT !.task = task]
    IN  /\ Free(r)
        /\ started < MaxRequests
        /\ started' = started + 1
        /\ req' = [req EXCEPT ![r] =
              IF task = NoTask THEN Respond(q, 404, "Task not found")
              ELSE IF task = Corrupt THEN Respond(q, 500, "JSONDecodeError")
              ELSE IF IsClosed(task.status)
                   THEN Respond(q, 400, "Task is already closed")
              ELSE [q EXCEPT !.pc = "sync"]]
        /\ UNCHANGED <<store, ws, call>>

\* main.py:397-424  load the task and validate it
ApplyLoad(r, task_id) ==
    LET task == load_task(store, task_id)
        q == [Arrived("apply", task_id, started + 1) EXCEPT !.task = task]
    IN  /\ Free(r)
        /\ started < MaxRequests
        /\ started' = started + 1
        /\ req' = [req EXCEPT ![r] =
              IF task = NoTask THEN Respond(q, 404, "Task not found")
              ELSE IF task = Corrupt THEN Respond(q, 500, "JSONDecodeError")
              ELSE IF IsClosed(task.status)
                   THEN Respond(q, 400, "Task is already closed")
              ELSE IF task.description = ""
                   THEN Respond(q, 400, "Task has no description")
              ELSE IF task.affected_files = <<>>
                   THEN Respond(q, 400, "Task has no affected_files")
              ELSE [q EXCEPT !.pc = "sync"]]
        /\ UNCHANGED <<store, ws, call>>

\* main.py:427  ensure_repo_cloned()
ApplySync(r) ==
    /\ req[r].pc = "sync"
    /\ \E o \in EnsureOutcomes :
          LET res == ensure_repo_cloned(ws, o)
              q == [req[r] EXCEPT !.touched = TRUE]
          IN  /\ ws' = res.ws
              /\ req' = [req EXCEPT ![r] =
                    IF res.ok THEN [q EXCEPT !.pc = "branch"]
                    ELSE Respond(q, 500, "RuntimeError")]
    /\ UNCHANGED <<store, started, call>>

\* main.py:428  create_feature_branch(branch_name)
ApplyBranch(r) ==
    /\ req[r].pc = "branch"
    /\ \E o \in BranchOutcomes :
          LET res == create_feature_branch(ws, BranchName(req[r].task_id), o)
          IN  /\ ws' = res.ws
              /\ req' = [req EXCEPT ![r] =
                    IF res.ok THEN [req[r] EXCEPT !.pc = "files", !.idx = 1]
                    ELSE Respond(req[r], 500, "RuntimeError")]
    /\ UNCHANGED <<store, started, call>>

\* ApplyFile, marking the task failed in the store when the resolution is
\* ambiguous.
ApplyFileMarksFailed(r) ==
    /\ req[r].pc = "files"
    /\ \E g \in GenOutcomes :
          LET q == req[r]
              found == resolve_repo_file(q.task.affected_files[q.idx], Tree(ws))
              last == q.idx = Len(q.task.affected_files)
          IN  IF ~found.ok
              THEN /\ req' = [req EXCEPT ![r] =
                         Respond([q EXCEPT !.candidates = found.candidates],
                                 400, "Multiple matches")]
                   /\ ws' = ws
                   /\ store' = save_task(store, [q.task EXCEPT !.status = "failed"])
              ELSE IF g = "raise"
              THEN /\ req' = [req EXCEPT ![r] = Respond(q, 500, "generator error")]
                   /\ UNCHANGED <<ws, store>>
              ELSE /\ ws' = WriteFile(ws, found.path, g)
                   /\ store' = store
                   /\ req' = [req EXCEPT ![r] =
                         [q EXCEPT !.modified = Append(@, found.path),
                                   !.written = Append(@, Content(g)),
                                   !.idx = @ + 1,
                                   !.pc = IF last THEN "publish" ELSE "files"]]
    /\ UNCHANGED <<started, call>>

\* main.py:435-461  one turn of the loop over affected_files
ApplyFile(r) ==
    /\ req[r].pc = "files"
    /\ \E g \in GenOutcomes :
          LET q == req[r]
              found == resolve_repo_file(q.task.affected_files[q.idx], Tree(ws))
              last == q.idx = Len(q.task.affected_files)
          IN  IF ~found.ok
              THEN /\ req' = [req EXCEPT ![r] =
                         Respond([q EXCEPT !.candidates = found.candidates],
                                 400, "Multiple matches")]
                   /\ ws' = ws
              ELSE IF g = "raise"
              THEN /\ req' = [req EXCEPT ![r] = Respond(q, 500, "generator error")]
                   /\ ws' = ws
              ELSE /\ ws' = WriteFile(ws, found.path, g)
                   /\ req' = [req EXCEPT ![r] =
                         [q EXCEPT !.modified = Append(@, found.path),
                                   !.written = Append(@, Content(g)),
                                   !.idx = @ + 1,
                                   !.pc = IF last THEN "publish" ELSE "files"]]
    /\ UNCHANGED <<store, started, call>>

\* main.py:464-484  commit_and_push, then the first save of the task
ApplyPublish(r) ==
    /\ req[r].pc = "publish"
    /\ \E o \in PublishOutcomes :
          LET q == req[r]
              branch_name == BranchName(q.task_id)
              res == commit_and_push(ws, branch_name,
                                     CommitMessage(q.task.description), o)
              task == Applied(q.task, branch_name, q.modified, q.at)
          IN  /\ ws' = res.ws
              /\ IF res.ok
                 THEN /\ store' = save_task(store, task)
                      /\ req' = [req EXCEPT ![r] =
                            [q EXCEPT !.task = task, !.published = TRUE, !.pc = "post"]]
                 ELSE /\ store' = store
                      /\ req' = [req EXCEPT ![r] = Respond(q, 500, "RuntimeError")]
    /\ UNCHANGED <<started, call>>

\* main.py:486-514  load_task returns a dict (json.load), so the attribute
\* access task.branch_name of line 493 raises AttributeError; lines 495-514
\* (status CODE_APPLIED, add_task_event, the second save, the 200 response)
\* are never reached.
ApplyPost(r) ==
    /\ req[r].pc = "post"
    /\ LET task == load_task(store, req[r].task_id)
       IN  req' = [req EXCEPT ![r] =
             IF task = NoTask THEN Respond(req[r], 404, "Task not found")
             ELSE IF task = Corrupt THEN Respond(req[r], 500, "JSONDecodeError")
             ELSE Respond(req[r], 500, "AttributeError")]
    /\ UNCHANGED <<store, ws, started, call>>

---------------------------------------------------------------------------
(* POST /tasks/{task_id}/run-tests: main.py:123-312                        *)
(***************************************************************************)

\* What the test command can do: which runner is found, whether it runs
\* past the timeout, and its return code.
TestOutcomes == [runner : {"mvnw", "mvn", "none"}, timed_out : BOOLEAN, returncode : {0, 1}]

\* test_service.py:6-55  raises when no runner is found (RuntimeError) or
\* on a timeout (subprocess.TimeoutExpired)
run_tests_in_repo(o) ==
    IF o.runner = "none" \/ o.timed_out
    THEN [raised |-> TRUE, success |-> FALSE, exit_code |-> -1]
    ELSE [raised |-> FALSE, success |-> o.returncode = 0, exit_code |-> o.returncode]

\* main.py:227
TestStatus(result) == IF result.success THEN "passed" ELSE "failed"

\* main.py:201-217  the update of the local task dict when the tests raised
TestErrored(task, branch, at) ==
    [task EXCEPT !.last_test_status = "error",
                 !.run_history = Append(@, [type |-> "test_run", test_status |-> "error",
                                            error |-> "RuntimeError", at |-> at,
                                            branch |-> branch])]

TestedRewritesTimeline(task, result, branch, at) ==
    [task EXCEPT !.last_test_status = TestStatus(result),
                 !.timeline = <<[label |-> "Tests " \o TestStatus(result),
                                 at |-> ToString(at),
                                 meta |-> [branch |-> branch,
                                           exit_code |-> result.exit_code]]>>,
                 !.run_history = Append(@, [type |-> "test_run",
                                            test_status |-> TestStatus(result),
                                            exit_code |-> result.exit_code, at |-> at,
                                            branch |-> branch])]

\* main.py:226-243  the update of the local task dict when the tests ran
Tested(task, result, branch, at) ==
    [task EXCEPT !.last_test_status = TestStatus(result),
                 !.run_history = Append(@, [type |-> "test_run",
                                            test_status |-> TestStatus(result),
                                            exit_code |-> result.exit_code, at |-> at,
                                            branch |-> branch])]

\* TestLoad without the test of applied_branch.
TestLoadUnchecked(r, task_id) ==
    LET task == load_task(store, task_id)
        q == [Arrived("run_tests", task_id, started + 1) EXCEPT !.task = task]
    IN  /\ Free(r)
        /\ started < MaxRequests
        /\ started' = started + 1
        /\ req' = [req EXCEPT ![r] =
              IF task = NoTask THEN Respond(q, 404, "Task not found")
              ELSE IF task = Corrupt THEN Respond(q, 500, "JSONDecodeError")
              ELSE IF ~ws.cloned THEN Respond(q, 500, "Local repo not found")
              ELSE [q EXCEPT !.pc = "test_checkout"]]
        /\ UNCHANGED <<store, ws, call>>

\* main.py:137-161  load the task, require applied_branch and the clone
TestLoad(r, task_id) ==
    LET task == load_task(store, task_id)
        q == [Arrived("run_tests", task_id, started + 1) EXCEPT !.task = task]
    IN  /\ Free(r)
        /\ started < MaxRequests
        /\ started' = started + 1
        /\ req' = [req EXCEPT ![r] =
              IF task = NoTask THEN Respond(q, 404, "Task not found")
              ELSE IF task = Corrupt THEN Respond(q, 500, "JSONDecodeError")
              ELSE IF task.applied_branch = None
                   THEN Respond(q, 400, "Task has no applied_branch")
              ELSE IF ~ws.cloned THEN Respond(q, 500, "Local repo not found")
              ELSE [q EXCEPT !.pc = "test_checkout"]]
        /\ UNCHANGED <<store, ws, call>>

\* main.py:163-195  git checkout applied_branch, then a pull whose failure
\* is ignored
TestCheckout(r) ==
    /\ req[r].pc = "test_checkout"
    /\ \E ok \in BOOLEAN :
          LET q == [req[r] EXCEPT !.touched = TRUE]
              branch == q.task.applied_branch
          IN  IF ok /\ branch \in ws.local
              THEN /\ ws' = [ws EXCEPT !.head = branch]
                   /\ req' = [req EXCEPT ![r] = [q EXCEPT !.pc = "test_run"]]
              ELSE /\ ws' = ws
                   /\ req' = [req EXCEPT ![r] = Respond(q, 500, "Failed to checkout branch")]
    /\ UNCHANGED <<store, started, call>>

\* main.py:197-245  run the tests and save the outcome
TestRun(r) ==
    /\ req[r].pc = "test_run"
    /\ \E o \in TestOutcomes :
          LET q == req[r]
              result == run_tests_in_repo(o)
              branch == q.task.applied_branch
              errored == TestErrored(q.task, branch, q.at)
              tested == Tested(q.task, result, branch, q.at)
          IN  IF result.raised
              THEN /\ store' = save_task(store, errored)
                   /\ req' = [req EXCEPT ![r] =
                         Respond([q EXCEPT !.task = errored], 500,
                                 "Error while running tests")]
              ELSE /\ store' = save_task(store, tested)
                   /\ req' = [req EXCEPT ![r] =
                         [q EXCEPT !.task = tested, !.exit = result.exit_code,
                                   !.pc = "test_post"]]
    /\ UNCHANGED <<ws, started, call>>

\* main.py:247-312  load_task returns a dict, so the attribute access
\* task.branch_name of line 255 raises AttributeError; lines 257-312 (the
\* status TESTS_PASSED / TESTS_FAILED, add_task_event, the later saves, the
\* 200 response) are never reached.
TestPost(r) ==
    /\ req[r].pc = "test_post"
    /\ LET task == load_task(store, req[r].task_id)
       IN  req' = [req EXCEPT ![r] =
             IF task = NoTask THEN Respond(req[r], 404, "Task not found")
             ELSE IF task = Corrupt THEN Respond(req[r], 500, "JSONDecodeError")
             ELSE Respond(req[r], 500, "AttributeError")]
    /\ UNCHANGED <<store, ws, started, call>>

\* The response is sent and the worker thread is free again.
Return(r) ==
    /\ req[r].pc = "done"
    /\ req' = [req EXCEPT ![r] = IdleRequest]
    /\ UNCHANGED <<store, ws, started, call>>

---------------------------------------------------------------------------
(* Specifications *)

Create == \E t \in TaskIds, out \in SpecOutputs : create_task_from_message(t, out)

Step(r) ==
    \/ \E t \in TaskIds : ApplyLoad(r, t)
    \/ ApplySync(r)
    \/ ApplyBranch(r)
    \/ ApplyFile(r)
    \/ ApplyPublish(r)
    \/ ApplyPost(r)
    \/ \E t \in TaskIds : TestLoad(r, t)
    \/ TestCheckout(r)
    \/ TestRun(r)
    \/ TestPost(r)
    \/ Return(r)

\* One request at a time.
Next == Create \/ Step(1)

Spec == Init /\ [][Next]_vars

\* Requests overlap: each slot is a worker thread of the server.  The tasks
\* are created from fewer messages than under Spec.
OverlapOutputs ==
    {out \in SpecOutputs :
        /\ out.description = "Fix the bug"
        /\ out.affected_files \in {<<<<"x", "Foo.txt">>>>, <<<<"x", "Bar.txt">>>>}}

CreateForOverlap ==
    \E t \in TaskIds, out \in OverlapOutputs : create_task_from_message(t, out)

NextConcurrent == CreateForOverlap \/ \E r \in Slots : Step(r)

SpecConcurrent == Init /\ [][NextConcurrent]_vars

---------------------------------------------------------------------------
(* The functions of src/services/git_service.py called on their own, in    *)
(* any order, with files written to the working tree in between.  call     *)
(* records the last call: the function, its arguments, the workspace       *)
(* before it, the outcomes of its git commands and what it returned.       *)
(***************************************************************************)

\* Calls and writes made by one behaviour of SpecGit.
MaxCalls == 4

GitPaths == {<<"a", "Foo.txt">>, <<"x", "New.txt">>}
FeatureBranches == {BranchName(t) : t \in TaskIds}
CommitMessages == {CommitMessage("Fix the bug"), CommitMessage("nothing to commit")}

Called(op, branch_name, commit_message, o, result) ==
    [op |-> op, branch_name |-> branch_name, commit_message |-> commit_message,
     before |-> ws, outcome |-> o, result |-> result]

GitCall(op, branch_name, commit_message, o, result) ==
    /\ started < MaxCalls
    /\ started' = started + 1
    /\ ws' = result.ws
    /\ call' = Called(op, branch_name, commit_message, o, result)
    /\ UNCHANGED <<store, req>>

\* git_service.py:32-98
CallEnsure ==
    \E o \in EnsureOutcomes :
        GitCall("ensure_repo_cloned", None, None, o, ensure_repo_cloned(ws, o))

\* git_service.py:101-111
CallCreateBranch ==
    \E b \in FeatureBranches, o \in BranchOutcomes :
        GitCall("create_feature_branch", b, None, o, create_feature_branch(ws, b, o))

\* git_service.py:114-140
CallCommitAndPush ==
    \E b \in FeatureBranches, m \in CommitMessages, o \in PublishOutcomes :
        GitCall("commit_and_push", b, m, o, commit_and_push(ws, b, m, o))

\* main.py:455-459  a caller writes a file of the clone
CallWrite ==
    /\ ws.cloned
    /\ started < MaxCalls
    /\ started' = started + 1
    /\ \E p \in GitPaths : ws' = WriteFile(ws, p, "changed")
    /\ UNCHANGED <<store, req, call>>

NextGit == CallEnsure \/ CallCreateBranch \/ CallCommitAndPush \/ CallWrite

SpecGit == Init /\ [][NextGit]_vars

---------------------------------------------------------------------------
(* Properties *)

IsPrefix(s1, s2) == Len(s1) <= Len(s2) /\ \A i \in DOMAIN s1 : s1[i] = s2[i]

\* The request of slot r is an apply whose every step up to the push
\* succeeded and whose task has been saved.
ApplySucceeded(r) ==
    req[r].kind = "apply" /\ req[r].published /\ req[r].pc \in {"post", "done"}

\* The request of slot r is a run-tests whose test command exited with `code`
\* and whose outcome has been saved.
TestsExited(r, code) ==
    req[r].kind = "run_tests" /\ req[r].exit = code /\ req[r].pc \in {"test_post", "done"}

\* C1: after an apply request on an open task in which synchronization,
\* branch creation, file resolution, generation, commit and push all
\* succeeded, the persisted task has status CODE_APPLIED.
C1_ApplySuccessLeavesCodeApplied ==
    \A r \in Slots :
        ApplySucceeded(r) => store[req[r].task_id].status = "CODE_APPLIED"

\* C2: an apply request against a closed task is answered with the "already
\* closed" rejection in its first step: no git command is issued, no file is
\* written, and the store and the workspace are unchanged.
C2_ClosedApplyRejected ==
    [][\A r \in Slots, t \in TaskIds :
          (/\ req[r].pc = "idle"
           /\ req'[r].kind = "apply"
           /\ req'[r].task_id = t
           /\ IsTask(store[t])
           /\ store[t].status = "closed")
          => (/\ req'[r].pc = "done"
              /\ req'[r].resp = Response(400, "Task is already closed")
              /\ ~req'[r].touched
              /\ store' = store
              /\ ws' = ws)]_vars

\* C2 witness: an apply request on a task persisted as closed has been
\* rejected.
C2_Witness ==
    \E r \in Slots :
        /\ req[r].kind = "apply"
        /\ req[r].pc = "done"
        /\ req[r].resp = Response(400, "Task is already closed")
        /\ ~req[r].touched
        /\ store[req[r].task_id].status = "closed"

\* C3: an apply request on a task that has been applied and tested (its
\* tests passed or failed) is accepted, and when its every step succeeds the
\* persisted task has status CODE_APPLIED.
C3_ReapplyAllowed ==
    \A r \in Slots :
        (/\ req[r].kind = "apply"
         /\ IsTask(req[r].task)
         /\ req[r].task.last_test_status \in {"passed", "failed"})
        => (/\ req[r].resp # Response(400, "Task is already closed")
            /\ ApplySucceeded(r) => store[req[r].task_id].status = "CODE_APPLIED")

\* C4: after a run-tests request whose test command exited with code 1, the
\* persisted task has status TESTS_FAILED and last_test_status "failed", and
\* its timeline is one event longer than when the request loaded it.
C4_TestsFailedRecorded ==
    \A r \in Slots :
        TestsExited(r, 1) =>
            LET task == store[req[r].task_id]
            IN  /\ task.status = "TESTS_FAILED"
                /\ task.last_test_status = "failed"
                /\ Len(task.timeline) = Len(req[r].task.timeline) + 1

\* C5: after a run-tests request whose test command exited with code 0, the
\* persisted task has status TESTS_PASSED and last_test_status "passed".
C5_TestsPassedRecorded ==
    \A r \in Slots :
        TestsExited(r, 0) =>
            LET task == store[req[r].task_id]
            IN  /\ task.status = "TESTS_PASSED"
                /\ task.last_test_status = "passed"

\* C6: every step that changes the persisted status of a task appends
\* exactly one event to its persisted timeline, and that event carries the
\* branch name and the files modified or the exit code.
C6_TransitionAppendsOneEvent ==
    [][\A t \in TaskIds :
          (IsTask(store[t]) /\ IsTask(store'[t]) /\ store'[t].status # store[t].status)
          => (/\ Len(store'[t].timeline) = Len(store[t].timeline) + 1
              /\ IsPrefix(store[t].timeline, store'[t].timeline)
              /\ LET meta == store'[t].timeline[Len(store'[t].timeline)].meta
                 IN  /\ "branch" \in DOMAIN meta
                     /\ {"files", "exit_code"} \cap DOMAIN meta # {})]_vars

\* C7: in every persisted task, branch_name is set if and only if the
\* status is not open.
C7_BranchNameIffNotOpen ==
    \A t \in TaskIds :
        IsTask(store[t]) => (store[t].branch_name # None <=> store[t].status # "open")

\* C8: the persisted timeline of a task is append-only: over every step, a
\* persisted task stays a persisted task and its timeline before the step is
\* a prefix of its timeline after it.
C8_TimelineAppendOnly ==
    [][\A t \in TaskIds :
          IsTask(store[t])
          => IsTask(store'[t]) /\ IsPrefix(store[t].timeline, store'[t].timeline)]_vars

\* C8 witness: an apply and then a run-tests request have each written the
\* record of a task over the file, and the persisted timeline is the one
\* the task was created with.
C8_Witness ==
    \E r \in Slots :
        /\ \E code \in {0, 1} : TestsExited(r, code)
        /\ Len(store[req[r].task_id].run_history) >= 2
        /\ store[req[r].task_id].timeline = req[r].task.timeline

\* The request of slot r has issued its first workspace operation and not
\* yet its last one.
InWorkspace(r) ==
    req[r].touched /\ req[r].pc \in {"branch", "files", "publish", "test_run"}

\* The step taken is a workspace operation (git commands, a file write, the
\* test command) of the request of slot r.
WorkspaceOp(r) ==
    /\ req[r].pc \in {"sync", "branch", "files", "publish", "test_checkout", "test_run"}
    /\ req'[r] # req[r]

\* C9: workspace flows are mutually exclusive: while one request is between
\* its first and its last workspace operation, no other request performs a
\* workspace operation.
C9_WorkspaceExclusive ==
    [][\A r1, r2 \in Slots :
          (r1 # r2 /\ InWorkspace(r1)) => ~WorkspaceOp(r2)]_vars

\* The timestamp of a run_history entry.
Stamp(entry) == IF "at" \in DOMAIN entry THEN entry.at ELSE entry.applied_at

Stamps(history) == {Stamp(history[i]) : i \in DOMAIN history}

\* The request of slot r has appended its entry to run_history and saved.
HasSaved(r) == IsTask(req[r].task) /\ req[r].at \in Stamps(req[r].task.run_history)

\* C10: no lost update: when two requests on the same task have both saved
\* an entry, the persisted run_history holds the entries of both.
C10_NoLostUpdate ==
    \A r1, r2 \in Slots :
        (/\ r1 # r2
         /\ req[r1].task_id = req[r2].task_id
         /\ HasSaved(r1)
         /\ HasSaved(r2))
        => {req[r1].at, req[r2].at} \subseteq Stamps(store[req[r1].task_id].run_history)

---------------------------------------------------------------------------
(* Branch creation, publication and synchronisation: SpecGit               *)

\* No git command of the create_feature_branch call was failed by its
\* environment (the first checkout of ensure_repo_cloned may fail when its
\* retry succeeds).
BranchGitHealthy(o) ==
    o.ensure.first /\ o.ensure.retry /\ o.ensure.pull /\ o.checkout /\ o.pull /\ o.create

\* C11: create_feature_branch called with a name whose local branch already
\* exists checks that branch out and succeeds, and the set of local branches
\* is the same after the call as before it.
C11_BranchCreationReentrant ==
    (/\ call.op = "create_feature_branch"
     /\ call.branch_name \in call.before.local
     /\ BranchGitHealthy(call.outcome))
    => /\ call.result.ok
       /\ call.result.ws.head = call.branch_name
       /\ call.result.ws.local = call.before.local

---------------------------------------------------------------------------
(* The branch of a task: Spec                                              *)

\* The branch names the record of a task holds (`branch_name` is a field of
\* TaskSpec that no handler writes; apply records `applied_branch`).
RecordedBranches(task) == {task.branch_name, task.applied_branch} \ {None}

\* C12: the branch name of a task is empty until an apply call whose branch
\* creation succeeded; every apply call for a task targets the same branch
\* name, a function of the task id only; a recorded name never changes.
C12_BranchNameStable ==
    /\ [](\A t \in TaskIds :
            IsTask(store[t]) =>
                /\ RecordedBranches(store[t]) \subseteq {BranchName(t)}
                /\ RecordedBranches(store[t]) \subseteq ws.local)
    /\ [][/\ \A t \in TaskIds :
                IsTask(store[t]) /\ IsTask(store'[t]) =>
                    RecordedBranches(store[t]) \subseteq RecordedBranches(store'[t])
          /\ \A r \in Slots :
                req[r].pc = "branch" /\ req'[r].pc = "files" =>
                    /\ ws'.head = BranchName(req[r].task_id)
                    /\ ws'.local = ws.local \cup {BranchName(req[r].task_id)}]_vars

\* An apply call arrived for a task whose branch was recorded by an earlier
\* apply call, and has been answered.
C12_Witness ==
    \E r \in Slots :
        /\ req[r].kind = "apply" /\ req[r].pc = "done"
        /\ IsTask(store[req[r].task_id])
        /\ store[req[r].task_id].applied_branch = BranchName(req[r].task_id)
        /\ \E i \in DOMAIN store[req[r].task_id].run_history :
              LET e == store[req[r].task_id].run_history[i]
              IN  "applied_at" \in DOMAIN e /\ e.applied_at < req[r].at

Issued(cmd, cmds) == \E i \in DOMAIN cmds : cmds[i] = cmd

\* C13: when `git commit` fails because there is nothing to commit,
\* commit_and_push does not raise and goes on to push; any other failure of
\* the commit propagates and no push is attempted.
C13_NothingToCommitTolerated ==
    (/\ call.op = "commit_and_push"
     /\ call.branch_name \in call.before.local
     /\ call.outcome.checkout)
    => /\ (call.before.dirty = {} /\ call.outcome.commit)
            => /\ Issued("push", call.result.cmds)
               /\ call.outcome.push => call.result.ok
       /\ (call.before.dirty # {} /\ ~call.outcome.commit)
            => /\ ~call.result.ok
               /\ ~Issued("push", call.result.cmds)

---------------------------------------------------------------------------
(* File resolution: Spec                                                   *)

\* The request of slot r takes one turn of its loop over affected_files.
ResolvesFile(r) == req[r].pc = "files" /\ req'[r] # req[r]

\* The declared path the turn is about, and the files of that name.
Declared(r) == req[r].task.affected_files[req[r].idx]
SameNamed(r) == {p \in Tree(ws) : FileName(p) = FileName(Declared(r))}

\* C14: when the declared path exists in the workspace as given,
\* resolve_repo_file returns exactly that path, whatever files of the same
\* name exist elsewhere: the turn does not fail with ambiguity, and the file
\* it writes is the declared one.
C14_VerbatimPathWins ==
    [][\A r \in Slots :
          (ResolvesFile(r) /\ Declared(r) \in Tree(ws)) =>
              /\ req'[r].resp # Response(400, "Multiple matches")
              /\ req'[r].pc # "done" =>
                    req'[r].modified = Append(req[r].modified, Declared(r))]_vars

\* A declared path that exists as given, with a file of its name in another
\* directory, has been resolved and written.
C14_Witness ==
    \E r \in Slots :
        /\ req[r].kind = "apply"
        /\ req[r].pc = "publish"
        /\ \E i \in DOMAIN req[r].modified :
              /\ req[r].modified[i] = <<"a", "Bar.txt">>
              /\ req[r].task.affected_files[i] = <<"a", "Bar.txt">>
              /\ <<"b", "Bar.txt">> \in Tree(ws)

\* C15: when the declared path does not exist as given and more than one
\* file of that name exists in the workspace, resolve_repo_file fails with an
\* ambiguity error that lists exactly the files of that name; none of them is
\* picked (nothing is written, no path is added to the modified ones).
C15_AmbiguityFails ==
    [][\A r \in Slots :
          (/\ ResolvesFile(r)
           /\ Declared(r) \notin Tree(ws)
           /\ Cardinality(SameNamed(r)) > 1) =>
              /\ req'[r].pc = "done"
              /\ req'[r].resp = Response(400, "Multiple matches")
              /\ req'[r].candidates = SameNamed(r)
              /\ req'[r].modified = req[r].modified
              /\ ws' = ws]_vars

\* An apply call declared x/Bar.txt, which does not exist, while a/Bar.txt
\* and b/Bar.txt do, and was answered.
C15_Witness ==
    \E r \in Slots :
        /\ req[r].kind = "apply"
        /\ req[r].pc = "done"
        /\ req[r].resp = Response(400, "Multiple matches")
        /\ req[r].candidates = {<<"a", "Bar.txt">>, <<"b", "Bar.txt">>}
        /\ req[r].task.affected_files[req[r].idx] = <<"x", "Bar.txt">>

\* The policies of the specification for a declared path that resolves to no
\* file.  ApplyTaskCodeRequest (main.py:85-86) carries language_hint only:
\* which of the two the caller wants never reaches the handler, whose steps
\* are the same for both.
ApplyPolicies == {"strict", "create_if_missing"}

\* C16: when the declared path does not exist as given and no file of that
\* name exists in the workspace, the outcome follows the policy selected by
\* the caller: under the strict policy the apply fails with a missing-target
\* condition and writes no file; under create-if-missing the declared path
\* becomes a new file holding the content returned by the generator.
C16_MissingTargetFollowsPolicy ==
    [][\A r \in Slots, policy \in ApplyPolicies :
          (/\ ResolvesFile(r)
           /\ SameNamed(r) = {}
           /\ req'[r].resp # Response(500, "generator error")) =>
              IF policy = "strict"
              THEN /\ req'[r].pc = "done"
                   /\ req'[r].resp.code = 400
                   /\ ws' = ws
              ELSE /\ req'[r].pc # "done"
                   /\ req'[r].modified = Append(req[r].modified, Declared(r))
                   /\ Declared(r) \in Tree(ws') \ Tree(ws)]_vars

---------------------------------------------------------------------------
(* What a rejected apply leaves behind: Spec                               *)

\* C17: an apply request that fails with an ambiguity error during file
\* resolution leaves the persisted status of the task as it was when the
\* request loaded it.
C17_AmbiguityKeepsStatus ==
    \A r \in Slots :
        (req[r].kind = "apply" /\ req[r].resp = Response(400, "Multiple matches")) =>
            /\ IsTask(store[req[r].task_id])
            /\ store[req[r].task_id].status = req[r].task.status

\* An apply call on an open task was refused for x/Bar.txt, of which the
\* clone holds a/Bar.txt and b/Bar.txt.
C17_Witness ==
    \E r \in Slots :
        /\ req[r].kind = "apply"
        /\ req[r].resp = Response(400, "Multiple matches")
        /\ req[r].touched
        /\ store[req[r].task_id].status = "open"
        /\ <<"x", "Bar.txt">> \in
              {req[r].task.affected_files[i] : i \in DOMAIN req[r].task.affected_files}

\* C18: once the persisted status of a task is the closed state, no later
\* apply or run-tests request changes any field of its persisted record.
C18_ClosedIsFinal ==
    [][\A t \in TaskIds :
          (IsTask(store[t]) /\ IsClosed(store[t].status)) => store'[t] = store[t]]_vars

\* C19: an apply request on a task whose affected_files list is empty, or
\* whose description is empty, is rejected in its first step, before any
\* mutation: no git command is run, no file is written, and the task record
\* and the workspace are unchanged.
C19_EmptyTaskRejected ==
    [][\A r \in Slots, t \in TaskIds :
          (/\ req[r].pc = "idle"
           /\ req'[r].kind = "apply"
           /\ req'[r].task_id = t
           /\ IsTask(store[t])
           /\ (store[t].affected_files = <<>> \/ store[t].description = ""))
          => (/\ req'[r].pc = "done"
              /\ req'[r].resp.code = 400
              /\ ~req'[r].touched
              /\ store' = store
              /\ ws' = ws)]_vars

\* An apply request on a task with no affected file, or on one with no
\* description, has been rejected.
C19_Witness ==
    \E r \in Slots :
        /\ req[r].kind = "apply"
        /\ req[r].pc = "done"
        /\ ~req[r].touched
        /\ store[req[r].task_id] = req[r].task
        /\ \/ /\ req[r].resp = Response(400, "Task has no affected_files")
              /\ req[r].task.affected_files = <<>>
           \/ /\ req[r].resp = Response(400, "Task has no description")
              /\ req[r].task.description = ""

---------------------------------------------------------------------------
(* Synchronisation of an existing clone: SpecGit                           *)

\* C20: a call of ensure_repo_cloned on an existing clone runs fetch, then
\* the checkout of the baseline branch; if that checkout fails it runs
\* reset --hard, then clean -fd, then one retry of the checkout; if the retry
\* fails the call fails and no pull is run; after a checkout that succeeded
\* the baseline branch is pulled.  reset and clean are run only after a
\* failed checkout.
C20_ResyncOrder ==
    (/\ call.op = "ensure_repo_cloned"
     /\ call.before.cloned
     /\ call.outcome.first)
    => LET cmds == call.result.cmds
           o == call.outcome
       IN  /\ IsPrefix(<<"fetch", "checkout">>, cmds)
           /\ o.checkout => cmds = <<"fetch", "checkout", "pull">>
           /\ ~o.checkout =>
                 IsPrefix(<<"fetch", "checkout", "reset", "clean", "checkout">>, cmds)
           /\ (~o.checkout /\ ~o.retry) =>
                 /\ ~call.result.ok
                 /\ Len(cmds) = 5
           /\ (~o.checkout /\ o.retry) =>
                 /\ Len(cmds) = 6
                 /\ cmds[6] = "pull"
                 /\ call.result.ok = o.pull
           /\ (Issued("reset", cmds) \/ Issued("clean", cmds)) => ~o.checkout

\* ensure_repo_cloned was called on a clone with uncommitted files: the
\* checkout failed, the tree was reset and cleaned, the retry succeeded and
\* the baseline was pulled.
C20_Witness ==
    /\ call.op = "ensure_repo_cloned"
    /\ call.before.cloned
    /\ call.before.dirty # {}
    /\ ~call.outcome.checkout
    /\ call.result.ok
    /\ call.result.ws.dirty = {}
    /\ call.result.cmds = <<"fetch", "checkout", "reset", "clean", "checkout", "pull">>

---------------------------------------------------------------------------
(* Publication and what is recorded of it: Spec                            *)

\* The request of slot r runs commit_and_push (and, when it returns, the
\* save that follows it).
Publishes(r) == req[r].pc = "publish" /\ req'[r] # req[r]

\* C21: a task is recorded as applied only after the push of its branch
\* succeeded; when the push fails, or the commit fails although there was
\* something to commit, the apply ends there with an error and the persisted
\* task record is as it was.
C21_RecordedOnlyAfterPush ==
    [][\A r \in Slots :
          Publishes(r) =>
              LET t == req[r].task_id
                  pushed == BranchName(t) \in ws'.pushed
                  commitFailed == ws.dirty # {} /\ ws'.dirty # {}
              IN  /\ store'[t] # store[t] => pushed
                  /\ (~pushed \/ commitFailed) =>
                        /\ req'[r].pc = "done"
                        /\ req'[r].resp.code = 500
                        /\ store' = store]_vars

\* The details of the error responses for the fatal conditions met after the
\* task was loaded: a failing git command of ensure_repo_cloned,
\* create_feature_branch or commit_and_push, an ambiguous file, a failing
\* generator, a failing checkout of the applied branch, an error of the test
\* invocation.
FatalConditions ==
    {"RuntimeError", "Multiple matches", "generator error",
     "Failed to checkout branch", "Error while running tests"}

Entries(task) == Len(task.timeline) + Len(task.run_history)

\* C22: every apply or run-tests request that ends in a fatal condition after
\* the task was loaded has appended an entry to the persisted timeline or
\* run_history of the task by the time the error is returned.
C22_FatalConditionRecorded ==
    [][\A r \in Slots :
          (/\ req[r].pc \notin {"idle", "done"}
           /\ req'[r].pc = "done"
           /\ req'[r].resp.detail \in FatalConditions) =>
              /\ IsTask(store'[req[r].task_id])
              /\ Entries(store'[req[r].task_id]) > Entries(req[r].task)]_vars

\* The run_history entries and the timeline events of a task that an apply
\* request stamped `at` wrote.
AppliedEntries(task, at) ==
    {i \in DOMAIN task.run_history :
        /\ "applied_at" \in DOMAIN task.run_history[i]
        /\ task.run_history[i].applied_at = at}
AppliedEvents(task) ==
    {i \in DOMAIN task.timeline : "files" \in DOMAIN task.timeline[i].meta}

\* C23: the files recorded on the task for a successful apply, in its
\* run_history entry and in its applied timeline event, are the resolved
\* paths that the apply wrote, in the order of the writes (not the declared
\* affected_files where the resolution led to another file).
C23_RecordsFilesWritten ==
    \A r \in Slots :
        (ApplySucceeded(r) /\ req[r].pc = "done") =>
            LET task == store[req[r].task_id]
            IN  /\ IsTask(task)
                /\ AppliedEntries(task, req[r].at) # {}
                /\ \A i \in AppliedEntries(task, req[r].at) :
                      task.run_history[i].files_modified = req[r].modified
                /\ AppliedEvents(task) # {}
                /\ \A i \in AppliedEvents(task) :
                      task.timeline[i].meta.files = req[r].modified

---------------------------------------------------------------------------
(* Test outcomes: Spec                                                     *)

LastEntry(task) == task.run_history[Len(task.run_history)]

\* The persisted record of the task holds `status` as the outcome of its
\* last test run, in last_test_status and in the last run_history entry.
TestRecorded(task, status) ==
    /\ IsTask(task)
    /\ task.last_test_status = status
    /\ task.run_history # <<>>
    /\ "test_status" \in DOMAIN LastEntry(task)
    /\ LastEntry(task).test_status = status

\* C24: a run-tests request whose test command exits non-zero is recorded as
\* the outcome "failed" and answered with a normal result, no error reaching
\* the caller; a test invocation error (no runner, timeout) is recorded in
\* run_history and last_test_status as "error", not as "failed" or "passed".
C24_FailedIsNotError ==
    \A r \in Slots :
        (req[r].kind = "run_tests" /\ req[r].pc = "done") =>
            /\ req[r].exit = 1 =>
                  /\ TestRecorded(store[req[r].task_id], "failed")
                  /\ req[r].resp.code = 200
            /\ req[r].resp.detail = "Error while running tests" =>
                  TestRecorded(store[req[r].task_id], "error")

---------------------------------------------------------------------------
(* Generated content: Spec                                                 *)

\* C25: when the generator returns empty content for a file, the apply
\* reports a generation failure and does not write the file: no affected file
\* is overwritten with, or created from, empty generator output.
C25_EmptyContentNotWritten ==
    \A r \in Slots :
        \A i \in DOMAIN req[r].written : req[r].written[i] # ""

---------------------------------------------------------------------------
(* What a commit holds: Spec                                               *)

Range(s) == {s[i] : i \in DOMAIN s}

\* C26: every commit that an apply creates on the feature branch of its task
\* holds only changes to files that this apply wrote; a file left changed or
\* created in the clone by an earlier apply that failed before committing is
\* not staged into it.
C26_CommitHoldsOwnFiles ==
    [][\A r \in Slots :
          Publishes(r) =>
              LET b == BranchName(req[r].task_id)
              IN  (ws'.commits[b] \ ws.commits[b]) \subseteq Range(req[r].modified)]_vars

---------------------------------------------------------------------------
(* Responses: Spec                                                         *)

\* C27: the response of apply agrees with the persisted outcome: whenever an
\* apply request has pushed the branch and persisted the task as applied, it
\* answers the caller with success, never with an error.
C27_ResponseAgreesWithRecord ==
    \A r \in Slots :
        (/\ ApplySucceeded(r)
         /\ req[r].pc = "done"
         /\ IsTask(store[req[r].task_id])
         /\ store[req[r].task_id].applied_branch = BranchName(req[r].task_id)
         /\ BranchName(req[r].task_id) \in ws.pushed)
        => req[r].resp.code = 200

\* C28: tests run only after an apply: a run-tests request for a task with
\* no recorded applied branch is rejected in its first step, before any git
\* command or test command is run, and the task record is unchanged; a
\* request that gets to the test command is on a task with an applied branch.
C28_TestsOnlyAfterApply ==
    /\ [](\A r \in Slots :
            (req[r].kind = "run_tests" /\ req[r].pc \in {"test_checkout", "test_run"})
                => req[r].task.applied_branch # None)
    /\ [][\A r \in Slots, t \in TaskIds :
            (/\ req[r].pc = "idle"
             /\ req'[r].kind = "run_tests"
             /\ req'[r].task_id = t
             /\ IsTask(store[t])
             /\ store[t].applied_branch = None)
            => (/\ req'[r].pc = "done"
                /\ req'[r].resp = Response(400, "Task has no applied_branch")
                /\ ~req'[r].touched
                /\ store' = store
                /\ ws' = ws)]_vars

\* A run-tests request on a task that was created and never applied has been
\* rejected, although the clone exists.
C28_Witness ==
    \E r \in Slots :
        /\ req[r].kind = "run_tests"
        /\ req[r].pc = "done"
        /\ req[r].resp = Response(400, "Task has no applied_branch")
        /\ ~req[r].touched
        /\ IsTask(store[req[r].task_id])
        /\ store[req[r].task_id].applied_branch = None
        /\ store[req[r].task_id].run_history = <<>>
        /\ ws.cloned

====
